---- MODULE Spec2Model ----
(***************************************************************************)
(* A model of the four-way pong server (src/index.js): the lobby registry, *)
(* the REST admission endpoints, the WebSocket handlers and the 60 Hz game *)
(* loop.  Node runs every handler to completion on one event loop, so each *)
(* handler is one atomic action.                                           *)
(*                                                                         *)
(* The registry is followed for one lobby code; handlers only ever touch   *)
(* lobbies.get(lobbyCode), so lobbies under other codes do not interact.   *)
(* Player ids are uuids, modelled by a counter that never repeats.         *)
(* The ball's coordinates and velocity are kept in units of 1/Unit, which  *)
(* makes the first MaxHits multiplications by 1.05 after a reset exact.    *)
(***************************************************************************)
EXTENDS Integers, Sequences, FiniteSets, TLC

\* ---- bounds of the model ------------------------------------------------
\* player ids ever issued (uuids), sockets ever accepted, handler runs that
\* advance one game (timer firings and paddle inputs), exact speed-ups
NumIds == 4
MaxConns == 2
MaxPlays == 1
MaxHits == 2

\* ---- program constants --------------------------------------------------
MAX_PLAYERS == 4
FIELD == 600
CENTER == 300
BALL_SPEED == 3
BALL_SIZE == 10
PADDLE_SPEED == 10
WIN_SCORE == 10

Unit == 20 ^ MaxHits

Codes == {"ABCD"}
Ids == 1 .. NumIds
Names == <<"Ann", "Bob", "Cyd", "Dee", "Eve", "Fay", "Gus", "Hal">>
positions == <<"TOP", "RIGHT", "BOTTOM", "LEFT">>
Directions == {"LEFT", "RIGHT", "UP", "DOWN"}
Signs == {BALL_SPEED * Unit, 0 - BALL_SPEED * Unit}

\* lobbies  the registry: lobby code -> lobby
\* timers   the number of running setInterval timers of the code
\* socks    per player id, the open sockets that were accepted for it
\* nextId   the next uuid, conns the sockets accepted so far
\* plays    timer firings and paddle inputs of the current game that the
\*          run has taken (the bound MaxPlays is on this count)
\* out      what the last handler sent: broadcasts, replies, closes
VARIABLES lobbies, timers, socks, nextId, conns, plays, out

vars == <<lobbies, timers, socks, nextId, conns, plays, out>>

\* ---- helpers --------------------------------------------------------------
Has(code) == code \in DOMAIN lobbies

Put(code, l) == [c \in DOMAIN lobbies \cup {code} |-> IF c = code THEN l ELSE lobbies[c]]

Delete(code) == [c \in DOMAIN lobbies \ {code} |-> lobbies[c]]

PlayerIds(l) == {l.players[i].id : i \in 1 .. Len(l.players)}

\* Array.prototype.findIndex on the id, 1-based; 0 when absent
FindIndex(players, playerId) ==
  IF \E i \in 1 .. Len(players) : players[i].id = playerId
  THEN CHOOSE i \in 1 .. Len(players) :
         /\ players[i].id = playerId
         /\ \A j \in 1 .. i - 1 : players[j].id # playerId
  ELSE 0

\* Array.prototype.find on the position: the id of the first player there, 0 when none
FindAt(players, side) ==
  IF \E i \in 1 .. Len(players) : players[i].position = side
  THEN players[CHOOSE i \in 1 .. Len(players) :
         /\ players[i].position = side
         /\ \A j \in 1 .. i - 1 : players[j].position # side].id
  ELSE 0

Splice(s, i) == SubSeq(s, 1, i - 1) \o SubSeq(s, i + 1, Len(s))

Msg(type, payload, to) == [type |-> type, payload |-> payload, to |-> to]

\* res.json / res.status(..).json of a REST handler, ws.close of the socket handler
Reply(body) == Msg("REPLY", body, <<>>)

CloseWith(reason) == Msg("CLOSE", reason, <<>>)

\* ---- broadcasts -----------------------------------------------------------
\* every client of the lobby is an open socket (a closed one is removed by
\* its close handler in the same turn), so the readyState test always passes
broadcastToLobby(l, type, payload) == <<Msg(type, payload, l.clients)>>

updateGameState(l) == broadcastToLobby(l, "GAME_STATE_UPDATE", l.gameState.status)

\* ---- game procedures ------------------------------------------------------
NewPaddle(player) ==
  LET position == player.position IN
  IF position = "TOP"
  THEN [playerId |-> player.id, position |-> position, x |-> 250, y |-> 20, width |-> 100, height |-> 10]
  ELSE IF position = "RIGHT"
  THEN [playerId |-> player.id, position |-> position, x |-> 570, y |-> 250, width |-> 10, height |-> 100]
  ELSE IF position = "BOTTOM"
  THEN [playerId |-> player.id, position |-> position, x |-> 250, y |-> 570, width |-> 100, height |-> 10]
  ELSE [playerId |-> player.id, position |-> position, x |-> 20, y |-> 250, width |-> 10, height |-> 100]

NewBall(vx, vy) == [x |-> CENTER * Unit, y |-> CENTER * Unit, velocityX |-> vx, velocityY |-> vy]

ZeroScores(l) ==
  [id \in DOMAIN l.gameState.scores \cup PlayerIds(l) |->
     IF id \in PlayerIds(l) THEN 0 ELSE l.gameState.scores[id]]

\* mutant: startGameLoop does not clear the interval that is already running
startGame_NoClear(l, vx, vy) ==
  LET g == [status |-> "PLAYING",
            ball |-> NewBall(vx, vy),
            paddles |-> [i \in 1 .. Len(l.players) |-> NewPaddle(l.players[i])],
            scores |-> ZeroScores(l)]
      l1 == [l EXCEPT !.gameState = g]
  IN [l |-> [l1 EXCEPT !.gameLoopInterval = TRUE],
      out |-> broadcastToLobby(l1, "GAME_START", "startTime"),
      dt |-> 1]

\* startGame followed by startGameLoop: the lobby afterwards, the messages
\* sent, and the change in the number of running interval timers
startGame(l, vx, vy) ==
  LET g == [status |-> "PLAYING",
            ball |-> NewBall(vx, vy),
            paddles |-> [i \in 1 .. Len(l.players) |-> NewPaddle(l.players[i])],
            scores |-> ZeroScores(l)]
      l1 == [l EXCEPT !.gameState = g]
  IN [l |-> [l1 EXCEPT !.gameLoopInterval = TRUE],
      out |-> broadcastToLobby(l1, "GAME_START", "startTime"),
      dt |-> IF l.gameLoopInterval THEN 0 ELSE 1]

WinnerName(l, winnerId) ==
  IF winnerId # 0 /\ FindIndex(l.players, winnerId) # 0
  THEN l.players[FindIndex(l.players, winnerId)].name
  ELSE "Unknown"

ResetReady(players) == [i \in 1 .. Len(players) |-> [players[i] EXCEPT !.isReady = FALSE]]

\* mutant: the readiness flags are not reset
endGame_KeepsReady(l, winnerId) ==
  LET l1 == [l EXCEPT !.gameLoopInterval = FALSE, !.gameState.status = "GAME_OVER"]
  IN [l |-> l1,
      out |-> broadcastToLobby(l1, "GAME_OVER", WinnerName(l1, winnerId)) \o updateGameState(l1),
      dt |-> IF l.gameLoopInterval THEN 0 - 1 ELSE 0]

\* mutant: the interval is left running
endGame_KeepsTimer(l, winnerId) ==
  LET l1 == [l EXCEPT !.gameState.status = "GAME_OVER"]
      l2 == [l1 EXCEPT !.players = ResetReady(l1.players)]
  IN [l |-> l2,
      out |-> broadcastToLobby(l1, "GAME_OVER", WinnerName(l1, winnerId)) \o updateGameState(l2),
      dt |-> 0]

endGame(l, winnerId) ==
  LET l1 == [l EXCEPT !.gameLoopInterval = FALSE, !.gameState.status = "GAME_OVER"]
      l2 == [l1 EXCEPT !.players = ResetReady(l1.players)]
  IN [l |-> l2,
      out |-> broadcastToLobby(l1, "GAME_OVER", WinnerName(l1, winnerId)) \o updateGameState(l2),
      dt |-> IF l.gameLoopInterval THEN 0 - 1 ELSE 0]

\* ---- initial state --------------------------------------------------------
Init ==
  /\ lobbies = <<>>
  /\ timers = 0
  /\ socks = [p \in Ids |-> 0]
  /\ nextId = 1
  /\ conns = 0
  /\ plays = 0
  /\ out = <<>>

\* ---- POST /api/lobby/create ----------------------------------------------
NewLobby(hostId, hostName) ==
  [host |-> hostId,
   clients |-> <<>>,
   players |-> <<[id |-> hostId, name |-> hostName, isReady |-> FALSE, position |-> "TOP"]>>,
   gameState |-> [status |-> "WAITING",
                  ball |-> [x |-> CENTER * Unit, y |-> CENTER * Unit, velocityX |-> 0, velocityY |-> 0],
                  paddles |-> <<>>,
                  scores |-> <<>>],
   gameLoopInterval |-> FALSE]

\* the do/while draws codes until one is free: the step is followed when
\* the code drawn is `code`
CreateLobby(code) ==
  /\ ~Has(code)
  /\ nextId <= NumIds
  /\ lobbies' = Put(code, NewLobby(nextId, Names[nextId]))
  /\ nextId' = nextId + 1
  /\ out' = <<Reply("ok")>>
  /\ UNCHANGED <<timers, socks, conns, plays>>

\* ---- POST /api/lobby/join ------------------------------------------------
\* mutant: the capacity test is off by one
IsFull_OffByOne(l) == Len(l.players) > MAX_PLAYERS

IsFull(l) == Len(l.players) >= MAX_PLAYERS

NextPosition(l) == positions[Len(l.players) + 1]

AddPlayer(l, playerId, playerName) ==
  [l EXCEPT !.players = Append(@, [id |-> playerId, name |-> playerName,
                                   isReady |-> FALSE, position |-> NextPosition(l)]),
            !.gameState.scores = [id \in DOMAIN @ \cup {playerId} |->
                                    IF id = playerId THEN 0 ELSE @[id]]]

JoinLobby(code) ==
  \/ /\ ~Has(code)
     /\ out' = <<Reply("Lobby not found")>>
     /\ UNCHANGED <<lobbies, timers, socks, nextId, conns, plays>>
  \/ /\ Has(code)
     /\ IsFull(lobbies[code])
     /\ out' = <<Reply("Lobby is full")>>
     /\ UNCHANGED <<lobbies, timers, socks, nextId, conns, plays>>
  \/ /\ Has(code)
     /\ ~IsFull(lobbies[code])
     /\ nextId <= NumIds
     /\ LET l == AddPlayer(lobbies[code], nextId, Names[nextId]) IN
          /\ lobbies' = Put(code, l)
          /\ out' = broadcastToLobby(l, "PLAYER_JOINED", Names[nextId]) \o <<Reply("ok")>>
     /\ nextId' = nextId + 1
     /\ UNCHANGED <<timers, socks, conns, plays>>

\* ---- wss.on('connection') ------------------------------------------------
IsMember(code, playerId) ==
  Has(code) /\ FindIndex(lobbies[code].players, playerId) # 0

\* the socket is closed at once: unknown lobby, or the id is not a player of it
AttachRefused(code, playerId) ==
  \/ /\ ~Has(code)
     /\ out' = <<CloseWith("Lobby not found")>>
     /\ UNCHANGED <<lobbies, timers, socks, nextId, conns, plays>>
  \/ /\ Has(code)
     /\ ~IsMember(code, playerId)
     /\ out' = <<CloseWith("Player not found in lobby")>>
     /\ UNCHANGED <<lobbies, timers, socks, nextId, conns, plays>>

\* the socket is recorded in lobby.clients and is sent the game state
AttachAccepted(code, playerId) ==
  /\ IsMember(code, playerId)
  /\ conns < MaxConns
  /\ lobbies' = Put(code, [lobbies[code] EXCEPT !.clients = Append(@, playerId)])
  /\ socks' = [socks EXCEPT ![playerId] = @ + 1]
  /\ conns' = conns + 1
  /\ out' = <<Msg("GAME_STATE_UPDATE", lobbies[code].gameState.status, <<playerId>>)>>
  /\ UNCHANGED <<timers, nextId, plays>>

Attach(code, playerId) ==
  \/ AttachRefused(code, playerId)
  \/ AttachAccepted(code, playerId)

\* ---- handlePlayerReady ---------------------------------------------------
MarkReady(l, playerId) ==
  [l EXCEPT !.players = [i \in 1 .. Len(@) |->
     IF @[i].id = playerId THEN [@[i] EXCEPT !.isReady = TRUE] ELSE @[i]]]

\* mutant: some() in place of every()
AllReady_Some(l) == \E i \in 1 .. Len(l.players) : l.players[i].isReady

AllReady(l) == \A i \in 1 .. Len(l.players) : l.players[i].isReady

\* mutant: the test of the player count is missing
ShouldStart_NoCount(l) == AllReady(l)

\* mutant: one player is enough
ShouldStart_Alone(l) == AllReady(l) /\ Len(l.players) >= 1

ShouldStart(l) == AllReady(l) /\ Len(l.players) >= 2

\* a PLAYER_READY message on a socket that was accepted for (code, playerId)
HandlePlayerReady(code, playerId) ==
  /\ socks[playerId] > 0
  /\ UNCHANGED <<socks, nextId, conns>>
  /\ IF ~Has(code)
     THEN out' = <<>> /\ UNCHANGED <<lobbies, timers, plays>>
     ELSE LET l == MarkReady(lobbies[code], playerId) IN
            IF ShouldStart(l)
            THEN /\ plays' = 0
                 /\ \E vx \in Signs, vy \in Signs :
                      LET s == startGame(l, vx, vy) IN
                        /\ lobbies' = Put(code, s.l)
                        /\ out' = s.out
                        /\ timers' = timers + s.dt
            ELSE /\ out' = updateGameState(l)
                 /\ lobbies' = Put(code, l)
                 /\ UNCHANGED <<timers, plays>>

\* ---- handleMovePaddle ----------------------------------------------------
\* Array.prototype.find on the paddles: index of the first paddle of the player
FindPaddle(paddles, playerId) ==
  IF \E i \in 1 .. Len(paddles) : paddles[i].playerId = playerId
  THEN CHOOSE i \in 1 .. Len(paddles) :
         /\ paddles[i].playerId = playerId
         /\ \A j \in 1 .. i - 1 : paddles[j].playerId # playerId
  ELSE 0

\* mutant: the edges of the field are not tested
MovePaddle_NoEdges(paddle, direction) ==
  IF paddle.position = "TOP" \/ paddle.position = "BOTTOM"
  THEN IF direction = "LEFT"
       THEN [paddle EXCEPT !.x = @ - PADDLE_SPEED]
       ELSE IF direction = "RIGHT"
       THEN [paddle EXCEPT !.x = @ + PADDLE_SPEED]
       ELSE paddle
  ELSE IF direction = "UP"
       THEN [paddle EXCEPT !.y = @ - PADDLE_SPEED]
       ELSE IF direction = "DOWN"
       THEN [paddle EXCEPT !.y = @ + PADDLE_SPEED]
       ELSE paddle

MovePaddle(paddle, direction) ==
  IF paddle.position = "TOP" \/ paddle.position = "BOTTOM"
  THEN IF direction = "LEFT" /\ paddle.x > 0
       THEN [paddle EXCEPT !.x = @ - PADDLE_SPEED]
       ELSE IF direction = "RIGHT" /\ paddle.x + paddle.width < FIELD
       THEN [paddle EXCEPT !.x = @ + PADDLE_SPEED]
       ELSE paddle
  ELSE IF direction = "UP" /\ paddle.y > 0
       THEN [paddle EXCEPT !.y = @ - PADDLE_SPEED]
       ELSE IF direction = "DOWN" /\ paddle.y + paddle.height < FIELD
       THEN [paddle EXCEPT !.y = @ + PADDLE_SPEED]
       ELSE paddle

\* mutant: the status is not tested
CanMove_AnyStatus(code, playerId) ==
  /\ Has(code)
  /\ FindPaddle(lobbies[code].gameState.paddles, playerId) # 0

CanMove(code, playerId) ==
  /\ Has(code)
  /\ lobbies[code].gameState.status = "PLAYING"
  /\ FindPaddle(lobbies[code].gameState.paddles, playerId) # 0

\* a MOVE_PADDLE message on a socket that was accepted for (code, playerId);
\* the direction is read only once the paddle is found
HandleMovePaddle(code, playerId) ==
  /\ socks[playerId] > 0
  /\ \/ /\ ~CanMove(code, playerId)
        /\ out' = <<>>
        /\ UNCHANGED <<lobbies, plays>>
     \/ /\ CanMove(code, playerId)
        /\ plays < MaxPlays
        /\ plays' = plays + 1
        /\ \E direction \in Directions :
             LET i == FindPaddle(lobbies[code].gameState.paddles, playerId)
                 l == [lobbies[code] EXCEPT !.gameState.paddles[i] = MovePaddle(@, direction)]
             IN /\ lobbies' = Put(code, l)
                /\ out' = updateGameState(l)
  /\ UNCHANGED <<timers, socks, nextId, conns>>

\* ---- handlePlayerLeave ---------------------------------------------------
\* mutant: the player's connections stay in lobby.clients
RemovePlayer_KeepsClients(l, playerId) ==
  [l EXCEPT !.players = Splice(@, FindIndex(@, playerId))]

RemovePlayer(l, playerId) ==
  [l EXCEPT !.players = Splice(@, FindIndex(@, playerId)),
            !.clients = SelectSeq(@, LAMBDA c : c # playerId)]

\* mutant: the last remaining player is promoted
Promote_Last(l, playerId) ==
  IF l.host = playerId THEN [l EXCEPT !.host = l.players[Len(l.players)].id] ELSE l

\* mutant: the host is never reassigned
Promote_Keep(l, playerId) == l

\* the host after playerId was removed, while players remain
Promote(l, playerId) ==
  IF l.host = playerId THEN [l EXCEPT !.host = l.players[1].id] ELSE l

\* the lobby is closed when the host left and nobody remains
Closes(l, playerId) == l.host = playerId /\ Len(l.players) = 0

\* handlePlayerLeave for a member of the lobby: whether the lobby is deleted,
\* the lobby afterwards, the messages sent, the change in running timers
handlePlayerLeave(l, playerId) ==
  LET playerName == l.players[FindIndex(l.players, playerId)].name
      l1 == RemovePlayer(l, playerId)
  IN IF Closes(l1, playerId)
     THEN [deleted |-> TRUE, l |-> l1, out |-> <<>>, dt |-> 0]
     ELSE LET l2 == Promote(l1, playerId)
              left == broadcastToLobby(l2, "PLAYER_LEFT", playerName)
          IN IF l2.gameState.status = "PLAYING"
             THEN LET e == endGame(l2, 0)
                  IN [deleted |-> FALSE, l |-> e.l, out |-> left \o e.out, dt |-> e.dt]
             ELSE [deleted |-> FALSE, l |-> l2, out |-> left \o updateGameState(l2), dt |-> 0]

\* a game is in progress
Playing(ls, code) == code \in DOMAIN ls /\ ls[code].gameState.status = "PLAYING"

Leave(code, playerId) ==
  \/ /\ ~IsMember(code, playerId)
     /\ out' = <<>>
     /\ UNCHANGED <<lobbies, timers, plays>>
  \/ /\ IsMember(code, playerId)
     /\ LET r == handlePlayerLeave(lobbies[code], playerId) IN
          /\ lobbies' = IF r.deleted THEN Delete(code) ELSE Put(code, r.l)
          /\ out' = r.out
          /\ timers' = timers + r.dt
     /\ plays' = IF Playing(lobbies', code) THEN plays ELSE 0

\* a LEAVE_LOBBY message: the socket stays open
LeaveLobby(code, playerId) ==
  /\ socks[playerId] > 0
  /\ Leave(code, playerId)
  /\ UNCHANGED <<socks, nextId, conns>>

\* ws.on('close')
Close(code, playerId) ==
  /\ socks[playerId] > 0
  /\ socks' = [socks EXCEPT ![playerId] = @ - 1]
  /\ Leave(code, playerId)
  /\ UNCHANGED <<nextId, conns>>

\* ---- the game loop ---------------------------------------------------------
checkCollision(ball, paddle) ==
  /\ ball.x < (paddle.x + paddle.width) * Unit
  /\ ball.x + BALL_SIZE * Unit > paddle.x * Unit
  /\ ball.y < (paddle.y + paddle.height) * Unit
  /\ ball.y + BALL_SIZE * Unit > paddle.y * Unit

\* the first paddle, in list order, the ball collides with; 0 when none
HitIndex(ball, paddles) ==
  IF \E i \in 1 .. Len(paddles) : checkCollision(ball, paddles[i])
  THEN CHOOSE i \in 1 .. Len(paddles) :
         /\ checkCollision(ball, paddles[i])
         /\ \A j \in 1 .. i - 1 : ~checkCollision(ball, paddles[j])
  ELSE 0

\* v * 1.05
Faster(v) == (v * 21) \div 20

Bounce(ball, paddle) ==
  IF paddle.position = "TOP" \/ paddle.position = "BOTTOM"
  THEN [ball EXCEPT !.velocityX = Faster(@), !.velocityY = Faster(0 - @)]
  ELSE [ball EXCEPT !.velocityX = Faster(0 - @), !.velocityY = Faster(@)]

Advance(ball) ==
  [ball EXCEPT !.x = @ + ball.velocityX, !.y = @ + ball.velocityY]

\* mutant: the right wall is tested before the top wall
ScoringSide_RightFirst(ball) ==
  IF ball.x > FIELD * Unit THEN "LEFT"
  ELSE IF ball.y < 0 THEN "BOTTOM"
  ELSE IF ball.y > FIELD * Unit THEN "TOP"
  ELSE IF ball.x < 0 THEN "RIGHT"
  ELSE "NONE"

\* the side whose guard scores: the first boundary test that is true
ScoringSide(ball) ==
  IF ball.y < 0 THEN "BOTTOM"
  ELSE IF ball.x > FIELD * Unit THEN "LEFT"
  ELSE IF ball.y > FIELD * Unit THEN "TOP"
  ELSE IF ball.x < 0 THEN "RIGHT"
  ELSE "NONE"

\* scores[id]++ (a missing entry is undefined and becomes NaN, written -1)
Increment(scores, id) ==
  [k \in DOMAIN scores \cup {id} |->
     IF k # id THEN scores[k]
     ELSE IF id \in DOMAIN scores /\ scores[id] >= 0 THEN scores[id] + 1 ELSE 0 - 1]

Won(scores, scorer) == scores[scorer] >= WIN_SCORE

\* the ball after the position update and the paddle collisions
Struck(l) ==
  LET moved == Advance(l.gameState.ball)
      hit == HitIndex(moved, l.gameState.paddles)
  IN IF hit # 0 THEN Bounce(moved, l.gameState.paddles[hit]) ELSE moved

\* (vx, vy) is the velocity resetBall draws, read only when a wall is crossed
updateBallPosition(l, vx, vy) ==
  LET ball == Struck(l)
      side == ScoringSide(ball)
      scorer == IF side = "NONE" THEN 0 ELSE FindAt(l.players, side)
      scores == IF scorer # 0 THEN Increment(l.gameState.scores, scorer) ELSE l.gameState.scores
      l1 == [l EXCEPT !.gameState.ball = IF side = "NONE" THEN ball ELSE NewBall(vx, vy),
                      !.gameState.scores = scores]
  IN IF scorer # 0 /\ Won(scores, scorer)
     THEN endGame(l1, scorer)
     ELSE [l |-> l1, out |-> <<>>, dt |-> 0]

\* the multiplication by 1.05 is exact in units of 1/Unit
Exact(ball) == (ball.velocityX * 21) % 20 = 0 /\ (ball.velocityY * 21) % 20 = 0

Representable(l) ==
  HitIndex(Advance(l.gameState.ball), l.gameState.paddles) = 0 \/ Exact(l.gameState.ball)

\* one firing of the setInterval callback: updateBallPosition, updateGameState
Tick(code) ==
  /\ timers > 0
  /\ plays < MaxPlays
  /\ \/ /\ ~Has(code)
        /\ out' = <<>>
        /\ plays' = plays + 1
        /\ UNCHANGED <<lobbies, timers>>
     \/ /\ Has(code)
        /\ lobbies[code].gameState.status # "PLAYING"
        /\ out' = updateGameState(lobbies[code])
        /\ plays' = plays + 1
        /\ UNCHANGED <<lobbies, timers>>
     \/ /\ Has(code)
        /\ lobbies[code].gameState.status = "PLAYING"
        /\ Representable(lobbies[code])
        /\ \E vx \in Signs, vy \in Signs :
             LET r == updateBallPosition(lobbies[code], vx, vy) IN
               /\ ScoringSide(Struck(lobbies[code])) = "NONE" => vx = vy /\ vx > 0
               /\ lobbies' = Put(code, r.l)
               /\ out' = r.out \o updateGameState(r.l)
               /\ timers' = timers + r.dt
        /\ plays' = IF Playing(lobbies', code) THEN plays + 1 ELSE 0
  /\ UNCHANGED <<socks, nextId, conns>>

\* ---- the system -----------------------------------------------------------
Next ==
  \E code \in Codes :
    \/ CreateLobby(code)
    \/ JoinLobby(code)
    \/ \E playerId \in Ids : Attach(code, playerId)
    \/ \E playerId \in Ids : HandlePlayerReady(code, playerId)
    \/ \E playerId \in Ids : HandleMovePaddle(code, playerId)
    \/ \E playerId \in Ids : LeaveLobby(code, playerId)
    \/ \E playerId \in Ids : Close(code, playerId)
    \/ Tick(code)

Spec == Init /\ [][Next]_vars

\* ---- a game in progress ---------------------------------------------------
\* Reaching a score takes a hundred timer firings, so the claims about
\* scoring are checked from the states of one game in progress: Ann (TOP, the
\* host), Bob (RIGHT) and Cyd (BOTTOM) joined, attached and readied in that
\* order, nobody moved a paddle, the ball was served ServeAge firings ago in
\* any of the four directions and now lies on the wall, and Ann has scored
\* none or all but one of the points she needs.  On its diagonal the ball
\* meets none of the three paddles, and a ball that leaves through the
\* bottom scores for Ann, so every such state is reached from Init.
ServeAge == CENTER \div BALL_SPEED

InitScores == {0, WIN_SCORE - 1}

PlayLobby(vx, vy, top) ==
  LET l0 == NewLobby(1, Names[1])
      l3 == AddPlayer(AddPlayer(l0, 2, Names[2]), 3, Names[3])
      l4 == MarkReady(MarkReady(MarkReady([l3 EXCEPT !.clients = <<1, 2, 3>>], 1), 2), 3)
      g == startGame(l4, vx, vy).l
  IN [g EXCEPT !.gameState.ball.x = @ + ServeAge * vx,
               !.gameState.ball.y = @ + ServeAge * vy,
               !.gameState.scores = [id \in DOMAIN @ |-> IF id = 1 THEN top ELSE 0]]

InitPlay ==
  \E code \in Codes, vx \in Signs, vy \in Signs, top \in InitScores :
    /\ lobbies = [c \in {code} |-> PlayLobby(vx, vy, top)]
    /\ timers = 1
    /\ socks = [p \in Ids |-> IF p <= 3 THEN 1 ELSE 0]
    /\ nextId = 4
    /\ conns = 3
    /\ plays = 0
    /\ out = updateGameState(PlayLobby(vx, vy, top))

\* The three sockets of the game are more than MaxConns, so no further socket
\* is accepted in these runs; every other handler runs as in Next.
NextPlay ==
  \E code \in Codes :
    \/ CreateLobby(code)
    \/ JoinLobby(code)
    \/ \E playerId \in Ids : AttachRefused(code, playerId)
    \/ \E playerId \in Ids : HandlePlayerReady(code, playerId)
    \/ \E playerId \in Ids : HandleMovePaddle(code, playerId)
    \/ \E playerId \in Ids : LeaveLobby(code, playerId)
    \/ \E playerId \in Ids : Close(code, playerId)
    \/ Tick(code)

SpecPlay == InitPlay /\ [][NextPlay]_vars

\* ---- paddles near the edges ----------------------------------------------
\* A paddle is twenty-five inputs away from an edge, so the claims about the
\* edges are checked from the states of a game of Ann, Bob and Cyd that has
\* just started (no timer firing yet) in which every player has already moved
\* the paddle along its axis to the coordinate d, at an edge or one input
\* from it.
PaddleStarts == {0, PADDLE_SPEED, FIELD - 100 - PADDLE_SPEED, FIELD - 100}

Moved(paddle, d) ==
  IF paddle.position = "TOP" \/ paddle.position = "BOTTOM"
  THEN [paddle EXCEPT !.x = d]
  ELSE [paddle EXCEPT !.y = d]

PaddleLobby(d) ==
  LET g == PlayLobby(BALL_SPEED * Unit, BALL_SPEED * Unit, 0)
  IN [g EXCEPT !.gameState.ball = NewBall(BALL_SPEED * Unit, BALL_SPEED * Unit),
               !.gameState.paddles = [i \in 1 .. Len(@) |-> Moved(@[i], d)]]

InitPaddle ==
  \E code \in Codes, d \in PaddleStarts :
    /\ lobbies = [c \in {code} |-> PaddleLobby(d)]
    /\ timers = 1
    /\ socks = [p \in Ids |-> IF p <= 3 THEN 1 ELSE 0]
    /\ nextId = 4
    /\ conns = 3
    /\ plays = 0
    /\ out = updateGameState(PaddleLobby(d))

SpecPaddle == InitPaddle /\ [][NextPlay]_vars

\* ==== the claims ============================================================
Status(code) == lobbies[code].gameState.status

Types(msgs) == {msgs[i].type : i \in 1 .. Len(msgs)}

\* every player is ready once the sender's flag is set, and there are two
EveryoneReady(l, playerId) ==
  /\ Len(l.players) >= 2
  /\ \A i \in 1 .. Len(l.players) : l.players[i].isReady \/ l.players[i].id = playerId

C2_StartsIffAllReady ==
  [][\A code \in Codes :
       /\ (Has(code)' /\ Status(code)' = "PLAYING" /\ ~(Has(code) /\ Status(code) = "PLAYING"))
            => \E playerId \in Ids : HandlePlayerReady(code, playerId)
       /\ \A playerId \in Ids :
            Has(code) /\ HandlePlayerReady(code, playerId) =>
              IF EveryoneReady(lobbies[code], playerId)
              THEN Status(code)' = "PLAYING" /\ Types(out') = {"GAME_START"}
              ELSE /\ lobbies'[code].gameState = lobbies[code].gameState
                   /\ timers' = timers
                   /\ Len(out') = 1
                   /\ Types(out') = {"GAME_STATE_UPDATE"}]_vars

\* a game that has just been started
C2_Witness ==
  \E code \in Codes :
    Has(code) /\ Status(code) = "PLAYING" /\ "GAME_START" \in Types(out) /\ timers = 1

\* ---- C3 ----
\* C3: a PLAYER_READY handled while the status is PLAYING leaves the ball,
\* the paddles, the scores and the status unchanged.
C3_ReadyWhilePlayingChangesNothing ==
  [][\A code \in Codes, playerId \in Ids :
       HandlePlayerReady(code, playerId) /\ Has(code) /\ Status(code) = "PLAYING"
         => lobbies'[code].gameState = lobbies[code].gameState]_vars

\* ---- C4 ----
\* C4: no two current players of a lobby guard the same side.
C4_SidesDistinct ==
  \A code \in Codes :
    Has(code) =>
      \A i, j \in 1 .. Len(lobbies[code].players) :
        i # j => lobbies[code].players[i].position # lobbies[code].players[j].position

\* ---- C5 ----
\* C5: a lobby never has more than 4 players; a join on a lobby that has 4
\* is answered, the answer is "Lobby is full", and the step changes nothing
\* of the lobby (no player, no score entry) and sends nothing else.
C5_FifthJoinFails ==
  /\ [](\A code \in Codes :
          Has(code) =>
            /\ Len(lobbies[code].players) <= MAX_PLAYERS
            /\ Len(lobbies[code].players) >= MAX_PLAYERS => ENABLED JoinLobby(code))
  /\ [][\A code \in Codes :
          JoinLobby(code) /\ Has(code) /\ Len(lobbies[code].players) >= MAX_PLAYERS
            => lobbies' = lobbies /\ out' = <<Reply("Lobby is full")>>]_vars

\* a join has just been refused by a lobby of four
C5_Witness ==
  \E code \in Codes :
    /\ Has(code)
    /\ Len(lobbies[code].players) = MAX_PLAYERS
    /\ out = <<Reply("Lobby is full")>>

\* ---- C6 ----
\* the first player in lobby order other than playerId
FirstOther(players, playerId) ==
  players[CHOOSE i \in 1 .. Len(players) :
            /\ players[i].id # playerId
            /\ \A j \in 1 .. i - 1 : players[j].id = playerId].id

\* C6: the host of a live lobby is one of its current players; in a step
\* after which the host of a lobby of two or more is no longer one of its
\* players (LEAVE_LOBBY or close by the host), the lobby stays and its host
\* is the first remaining player in join order.
C6_HostIsAMember ==
  /\ [](\A code \in Codes : Has(code) => lobbies[code].host \in PlayerIds(lobbies[code]))
  /\ [][\A code \in Codes :
          /\ Has(code)
          /\ Len(lobbies[code].players) >= 2
          /\ Has(code)' => lobbies[code].host \notin PlayerIds(lobbies'[code])
          => /\ Has(code)'
             /\ lobbies'[code].host = FirstOther(lobbies[code].players, lobbies[code].host)]_vars

\* the host has just left a lobby of three or more and another player is host
C6_Witness ==
  \E code \in Codes :
    /\ Has(code)
    /\ Len(lobbies[code].players) >= 2
    /\ \E i \in 1 .. Len(out) :
         /\ out[i].type = "PLAYER_LEFT"
         /\ \E k \in Ids : k < lobbies[code].host /\ out[i].payload = Names[k]

\* ---- C7 ----
\* C7: no lobby of the registry has an empty player list.
C7_NoEmptyLobby ==
  \A code \in Codes : Has(code) => Len(lobbies[code].players) > 0

\* the registry is empty again: the two players that were admitted have
\* left, the second of them by LEAVE_LOBBY on a socket that is still open
C7_Witness ==
  \E code \in Codes :
    ~Has(code) /\ nextId = 3 /\ conns = 2 /\ socks[1] = 0 /\ socks[2] = 1

\* ---- C8 ----
\* C8: the keys of gameState.scores are exactly the ids of the current players.
C8_ScoresMatchPlayers ==
  \A code \in Codes :
    Has(code) => DOMAIN lobbies[code].gameState.scores = PlayerIds(lobbies[code])

\* ---- C9 ----
NameOf(l, playerId) == l.players[FindIndex(l.players, playerId)].name

\* C9: the tick in which a score reaches 10 ends with status GAME_OVER and
\* GAME_OVER announced for that player; a tick of a lobby that is not
\* PLAYING leaves the ball where it is; while the status is PLAYING every
\* score is below 10; no score ever exceeds 10.
C9_TenEndsTheGame ==
  /\ [](\A code \in Codes :
          Has(code) =>
            \A id \in DOMAIN lobbies[code].gameState.scores :
              /\ lobbies[code].gameState.scores[id] <= WIN_SCORE
              /\ Status(code) = "PLAYING" => lobbies[code].gameState.scores[id] < WIN_SCORE)
  /\ [][\A code \in Codes :
          Tick(code) /\ Has(code) =>
            /\ Status(code) # "PLAYING" =>
                 lobbies'[code].gameState.ball = lobbies[code].gameState.ball
            /\ \A id \in DOMAIN lobbies[code].gameState.scores :
                 /\ lobbies[code].gameState.scores[id] < WIN_SCORE
                 /\ lobbies'[code].gameState.scores[id] >= WIN_SCORE
                 => /\ Status(code)' = "GAME_OVER"
                    /\ \E i \in 1 .. Len(out') :
                         /\ out'[i].type = "GAME_OVER"
                         /\ out'[i].payload = NameOf(lobbies[code], id)]_vars

\* ---- C10 ----
\* C10: in a step that begins and ends with status PLAYING no score entry
\* decreases.
C10_ScoresNeverDecrease ==
  [][\A code \in Codes :
       Playing(lobbies, code) /\ Playing(lobbies', code) =>
         \A id \in DOMAIN lobbies[code].gameState.scores :
           /\ id \in DOMAIN lobbies'[code].gameState.scores
           /\ lobbies'[code].gameState.scores[id] >= lobbies[code].gameState.scores[id]]_vars

\* ---- C11 ----
Sent(msgs, type, payload) ==
  \E i \in 1 .. Len(msgs) : msgs[i].type = type /\ msgs[i].payload = payload

\* C11: a step in which a player of a PLAYING lobby leaves (LEAVE_LOBBY or
\* close) keeps the lobby, sets its status to GAME_OVER, broadcasts GAME_OVER
\* with winner "Unknown" and clears the interval; no timer runs and no tick
\* is possible while the status is GAME_OVER.
C11_LeaveEndsTheGame ==
  /\ [](\A code \in Codes :
          Has(code) /\ Status(code) = "GAME_OVER" => timers = 0 /\ ~ENABLED Tick(code))
  /\ [][\A code \in Codes :
          /\ Has(code)
          /\ Status(code) = "PLAYING"
          /\ Has(code)' => PlayerIds(lobbies'[code]) \ PlayerIds(lobbies[code]) = {}
          /\ Has(code)' => PlayerIds(lobbies'[code]) # PlayerIds(lobbies[code])
          => /\ Has(code)'
             /\ Status(code)' = "GAME_OVER"
             /\ Sent(out', "GAME_OVER", "Unknown")
             /\ ~lobbies'[code].gameLoopInterval
             /\ timers' = 0]_vars

\* a player has just left a game that was in progress
C11_Witness ==
  \E code \in Codes :
    /\ Has(code)
    /\ Status(code) = "GAME_OVER"
    /\ "PLAYER_LEFT" \in Types(out)
    /\ Sent(out, "GAME_OVER", "Unknown")
    /\ timers = 0

\* ---- C12 ----
\* C12: at most one interval timer runs, and one runs exactly when the lobby
\* exists with status PLAYING (and then the lobby holds its handle).
C12_OneTimerIffPlaying ==
  /\ timers \in {0, 1}
  /\ \A code \in Codes :
       /\ timers = 1 <=> Playing(lobbies, code)
       /\ Has(code) => (lobbies[code].gameLoopInterval <=> Status(code) = "PLAYING")

\* the start procedure has run again for the three players of the game that
\* was in progress (a PLAYER_READY during play, or a rematch after a win)
C12_Witness ==
  \E code \in Codes :
    /\ Playing(lobbies, code)
    /\ timers = 1
    /\ "GAME_START" \in Types(out)
    /\ PlayerIds(lobbies[code]) = {1, 2, 3}
    /\ \A id \in DOMAIN lobbies[code].gameState.scores : lobbies[code].gameState.scores[id] = 0

\* ---- C13 ----
\* C13: a PLAYER_READY, MOVE_PADDLE, LEAVE_LOBBY or close handled for an id
\* that is not a player of the lobby, or for a lobby that does not exist,
\* changes no lobby, starts or stops no timer and sends nothing to anybody.
C13_StrangerIsIgnored ==
  [][\A code \in Codes, playerId \in Ids :
       /\ ~IsMember(code, playerId)
       /\ \/ HandlePlayerReady(code, playerId)
          \/ HandleMovePaddle(code, playerId)
          \/ LeaveLobby(code, playerId)
          \/ Close(code, playerId)
       => /\ lobbies' = lobbies
          /\ timers' = timers
          /\ \A i \in 1 .. Len(out') : out'[i].to = <<>>]_vars

\* ---- C14 ----
\* C14: the attached connections of a lobby hold at most one connection per
\* player id.
C14_OneConnectionPerPlayer ==
  \A code \in Codes :
    Has(code) =>
      \A i, j \in 1 .. Len(lobbies[code].clients) :
        i # j => lobbies[code].clients[i] # lobbies[code].clients[j]

\* ---- C15 ----
InField(paddle) ==
  IF paddle.position = "TOP" \/ paddle.position = "BOTTOM"
  THEN 0 <= paddle.x /\ paddle.x + paddle.width <= FIELD
  ELSE 0 <= paddle.y /\ paddle.y + paddle.height <= FIELD

\* the paddle after an input: where it was, or PADDLE_SPEED further along
\* its own axis in either direction, and otherwise the same
OneStep(before, after) ==
  IF before.position = "TOP" \/ before.position = "BOTTOM"
  THEN \E dx \in {0 - PADDLE_SPEED, 0, PADDLE_SPEED} : after = [before EXCEPT !.x = @ + dx]
  ELSE \E dy \in {0 - PADDLE_SPEED, 0, PADDLE_SPEED} : after = [before EXCEPT !.y = @ + dy]

\* C15: every paddle lies inside the field on its movable axis, and a
\* MOVE_PADDLE input that is acted on moves the sender's paddle by exactly 10
\* along that axis or leaves it where it is.
C15_PaddlesStayInField ==
  /\ [](\A code \in Codes :
          Has(code) =>
            \A i \in 1 .. Len(lobbies[code].gameState.paddles) :
              InField(lobbies[code].gameState.paddles[i]))
  /\ [][\A code \in Codes, playerId \in Ids :
          CanMove(code, playerId) /\ HandleMovePaddle(code, playerId) =>
            LET i == FindPaddle(lobbies[code].gameState.paddles, playerId)
            IN OneStep(lobbies[code].gameState.paddles[i], lobbies'[code].gameState.paddles[i])]_vars

\* Ann's paddle stands at the left edge and Bob's is one input from the top
\* edge: one of them has just been moved
C15_Witness ==
  \E code \in Codes :
    /\ Playing(lobbies, code)
    /\ Len(lobbies[code].gameState.paddles) = 3
    /\ lobbies[code].gameState.paddles[1].x = 0
    /\ lobbies[code].gameState.paddles[2].y = PADDLE_SPEED

\* ---- C16 ----
\* the side the claim gives the point to, for the ball where the tick put it
Crossed(ball) ==
  IF ball.y < 0 THEN "BOTTOM"
  ELSE IF ball.x > FIELD * Unit THEN "LEFT"
  ELSE IF ball.y > FIELD * Unit THEN "TOP"
  ELSE IF ball.x < 0 THEN "RIGHT"
  ELSE "NONE"

Guards(l, side) == {l.players[i].id : i \in {j \in 1 .. Len(l.players) : l.players[j].position = side}}

\* C16: a tick of a PLAYING lobby changes at most one score entry, by exactly
\* +1, and only for a player guarding the side opposite the first wall, in the
\* order y<0, x>600, y>600, x<0, that the advanced ball has crossed; if that
\* side has a guard a point is awarded; when a wall was crossed the ball is
\* back at (300, 300) with both velocity components +3 or -3, and when none
\* was crossed no score changes.
C16_OnePointPerTick ==
  [][\A code \in Codes :
       Playing(lobbies, code) /\ Tick(code) =>
         LET l == lobbies[code]
             side == Crossed(Struck(l))
             old == l.gameState.scores
             new == lobbies'[code].gameState.scores
             ball == lobbies'[code].gameState.ball
             gained == {id \in DOMAIN old : new[id] # old[id]}
         IN /\ DOMAIN new = DOMAIN old
            /\ Cardinality(gained) <= 1
            /\ \A id \in gained : new[id] = old[id] + 1 /\ id \in Guards(l, side)
            /\ Guards(l, side) # {} => gained # {}
            /\ side # "NONE" =>
                 /\ ball.x = CENTER * Unit /\ ball.y = CENTER * Unit
                 /\ ball.velocityX \in Signs /\ ball.velocityY \in Signs]_vars

\* Cyd (BOTTOM) has just been given a point for a ball that left through the
\* top wall, and the ball is back at the centre
C16_Witness ==
  \E code \in Codes :
    /\ Playing(lobbies, code)
    /\ 3 \in DOMAIN lobbies[code].gameState.scores
    /\ lobbies[code].gameState.scores[3] = 1
    /\ lobbies[code].gameState.ball.x = CENTER * Unit
    /\ lobbies[code].gameState.ball.y = CENTER * Unit
    /\ Types(out) = {"GAME_STATE_UPDATE"}

\* ---- C17 ----
\* the lobby is PLAYING and one of its paddles is the sender's
PlayingWithPaddle(code, playerId) ==
  /\ Playing(lobbies, code)
  /\ \E i \in 1 .. Len(lobbies[code].gameState.paddles) :
       lobbies[code].gameState.paddles[i].playerId = playerId

\* C17: a MOVE_PADDLE changes nothing and sends nothing unless the lobby is
\* PLAYING and the sender has a paddle; when it acts, only the sender's paddle
\* can differ afterwards, by one step along its movable axis, and the other
\* paddles, the ball, the scores, the players, the status and the timer are
\* as before.
C17_MoveTouchesOwnPaddleOnly ==
  [][\A code \in Codes, playerId \in Ids :
       socks[playerId] > 0 /\ HandleMovePaddle(code, playerId) =>
         IF PlayingWithPaddle(code, playerId)
         THEN LET i == FindPaddle(lobbies[code].gameState.paddles, playerId)
                  before == lobbies[code].gameState.paddles[i]
              IN /\ Has(code)'
                 /\ OneStep(before, lobbies'[code].gameState.paddles[i])
                 /\ [lobbies'[code] EXCEPT !.gameState.paddles[i] = before] = lobbies[code]
                 /\ timers' = timers
         ELSE lobbies' = lobbies /\ timers' = timers /\ out' = <<>>]_vars

\* Ann's paddle has just been moved one step from where the game put it
C17_Witness ==
  \E code \in Codes :
    /\ Playing(lobbies, code)
    /\ lobbies[code].gameState.paddles[1].x \in {250 - PADDLE_SPEED, 250 + PADDLE_SPEED}
    /\ out = updateGameState(lobbies[code])

\* ---- C18 ----
\* GAME_OVER is broadcast, and a GAME_STATE_UPDATE with status GAME_OVER only
\* after it
OverThenUpdate(msgs) ==
  \E i, j \in 1 .. Len(msgs) :
    /\ i < j
    /\ msgs[i].type = "GAME_OVER"
    /\ msgs[j].type = "GAME_STATE_UPDATE" /\ msgs[j].payload = "GAME_OVER"
    /\ \A k \in 1 .. i - 1 : msgs[k].type # "GAME_STATE_UPDATE"

\* C18: a step that takes a lobby out of PLAYING (a win or a leave: the end
\* procedure) keeps the lobby with status GAME_OVER, leaves every remaining
\* player's readiness flag false, and broadcasts GAME_OVER before the
\* GAME_STATE_UPDATE that carries status GAME_OVER.
C18_EndResetsReadiness ==
  [][\A code \in Codes :
       Playing(lobbies, code) /\ ~Playing(lobbies', code) =>
         /\ Has(code)'
         /\ Status(code)' = "GAME_OVER"
         /\ \A i \in 1 .. Len(lobbies'[code].players) : ~lobbies'[code].players[i].isReady
         /\ OverThenUpdate(out')]_vars

\* Ann has just won: the game is over and nobody is ready
C18_Witness ==
  \E code \in Codes :
    /\ Has(code)
    /\ Status(code) = "GAME_OVER"
    /\ Sent(out, "GAME_OVER", "Ann")
    /\ Len(lobbies[code].players) = 3
    /\ \A i \in 1 .. Len(lobbies[code].players) : ~lobbies[code].players[i].isReady

\* ---- C19 ----
Recipients(msgs) == UNION {{msgs[i].to[k] : k \in 1 .. Len(msgs[i].to)} : i \in 1 .. Len(msgs)}

ClientIds(l) == {l.clients[i] : i \in 1 .. Len(l.clients)}

\* C19: every connection in a lobby's clients belongs to a current player of
\* the lobby, and so does every recipient of what the last handler sent; an
\* attach for an unknown lobby or for an id that is not a player is closed
\* and records nothing.
C19_ClientsArePlayers ==
  /\ [](\A code \in Codes :
          /\ Has(code) =>
               /\ ClientIds(lobbies[code]) \subseteq PlayerIds(lobbies[code])
               /\ Recipients(out) \subseteq PlayerIds(lobbies[code])
          /\ ~Has(code) => Recipients(out) = {})
  /\ [][\A code \in Codes, playerId \in Ids :
          ~IsMember(code, playerId) /\ Attach(code, playerId) =>
            /\ lobbies' = lobbies
            /\ socks' = socks
            /\ Types(out') = {"CLOSE"}]_vars

\* a broadcast has just gone out while a player that left still has its
\* socket open
C19_Witness ==
  \E code \in Codes :
    /\ Has(code)
    /\ Recipients(out) # {}
    /\ \E playerId \in Ids : socks[playerId] > 0 /\ playerId \notin PlayerIds(lobbies[code])

\* ---- C20 ----
\* C20: a lobby whose status is PLAYING has at least two players, and no step
\* removes a PLAYING lobby from the registry.
C20_TwoPlayersWhilePlaying ==
  /\ [](\A code \in Codes : Playing(lobbies, code) => Len(lobbies[code].players) >= 2)
  /\ [][\A code \in Codes : Playing(lobbies, code) => Has(code)']_vars

\* one of the two players of a game has just left it: the game is over and
\* the lobby is still there with the other player
C20_Witness ==
  \E code \in Codes :
    /\ Has(code)
    /\ Status(code) = "GAME_OVER"
    /\ Len(lobbies[code].players) = 1
    /\ Types(out) = {"PLAYER_LEFT", "GAME_OVER", "GAME_STATE_UPDATE"}

====
